---- MODULE Spec2Model ----
(***************************************************************************)
(* LoopOptimizer (src/LoopOptimizer/loop_optimizer.js) and the HTTP route  *)
(* POST /api/optimize that drives it (the server listing in                *)
(* src/EnvironmentTagger/README.md), as a state machine.                   *)
(*                                                                         *)
(* JavaScript objects live in a heap of cells addressed by references, so  *)
(* that aliasing and deep copies are visible.  A JavaScript object is a    *)
(* function from its own keys to their values; an absent key is a key that *)
(* is not in the DOMAIN.  A frame is an object whose key order matters to  *)
(* JSON.stringify, so a frame is the sequence of its <<key, value>> pairs  *)
(* in insertion order.  Array indices are the 0-based indices of the code. *)
(* Time is counted in units of the timer delay of optimizeLoop.            *)
(***************************************************************************)
EXTENDS Integers, Sequences, FiniteSets, TLC

(* Bounds of the model. *)
NumCalls == 2
MaxFrames == 4

Calls == 1..NumCalls

(***************************************************************************)
(* JavaScript values and built-ins                                         *)
(***************************************************************************)

(* {...a, ...b}: the keys of both, b's value where both have the key. *)
Spread(a, b) ==
  [k \in (DOMAIN a) \cup (DOMAIN b) |-> IF k \in DOMAIN b THEN b[k] ELSE a[k]]

EmptyObject == [k \in {} |-> 0]

Has(o, k) == k \in DOMAIN o

(* A value passed as animationData: what typeof says of it, whether it is  *)
(* truthy, and the heap cell it refers to when it is an object.  JSString  *)
(* is a non-empty string; a non-zero number differs from it in its typeof  *)
(* only, which is not "object" either.                                     *)
JSUndefined == [typeof |-> "undefined", truthy |-> FALSE, ref |-> 0]
JSNull == [typeof |-> "object", truthy |-> FALSE, ref |-> 0]
JSString == [typeof |-> "string", truthy |-> TRUE, ref |-> 0]
ObjRef(r) == [typeof |-> "object", truthy |-> TRUE, ref |-> r]

Primitives == {JSUndefined, JSNull, JSString}

(* Frames: {"x":0,"y":0}, the same object with its keys in the other      *)
(* order, {"x":1} and {}.                                                  *)
FrameA == << <<"x", 0>>, <<"y", 0>> >>
FrameA2 == << <<"y", 0>>, <<"x", 0>> >>
FrameB == << <<"x", 1>> >>
FrameE == << >>
FrameValues == {FrameA, FrameA2, FrameB, FrameE}

NumberText(v) == IF v = 0 THEN "0" ELSE "1"
NumberValue(t) == IF t = "0" THEN 0 ELSE 1

PairText(p) == <<"\"", p[1], "\"", ":", NumberText(p[2])>>

RECURSIVE JoinPairs(_)
JoinPairs(ps) ==
  IF Len(ps) = 0 THEN << >>
  ELSE IF Len(ps) = 1 THEN PairText(ps[1])
  ELSE PairText(ps[1]) \o <<",">> \o JoinPairs(Tail(ps))

(* JSON.stringify of a frame, character by character, keys in insertion    *)
(* order.                                                                  *)
JSONstringify(frame) == <<"{">> \o JoinPairs(frame) \o <<"}">>

(* JSON.parse of such a text: "{}" or "{" then 6 characters per pair.      *)
JSONparse(text) ==
  LET n == (Len(text) - 1) \div 6
  IN [i \in 1..n |-> <<text[6 * (i - 1) + 3], NumberValue(text[6 * (i - 1) + 6])>>]

(* JSON.parse(JSON.stringify(record)): every frame goes through its text;  *)
(* the other values of the model are JSON scalars and objects of scalars,  *)
(* which the round trip returns as they are.                               *)
JSONRoundTrip(record) ==
  [k \in DOMAIN record |->
     IF k = "frames"
     THEN [i \in 1..Len(record[k]) |-> JSONparse(JSONstringify(record[k][i]))]
     ELSE record[k]]

(* Array.prototype.includes *)
Includes(seq, v) == \E j \in DOMAIN seq : seq[j] = v

Store(h, r, v) == [x \in (DOMAIN h) \cup {r} |-> IF x = r THEN v ELSE h[x]]

Max(a, b) == IF a >= b THEN a ELSE b

(***************************************************************************)
(* Options                                                                 *)
(***************************************************************************)

DefaultConfig == [quality |-> 8, enableCompression |-> TRUE]

ConstructorConfigs ==
  {EmptyObject, [quality |-> 3], [enableCompression |-> FALSE]}

CallOptions ==
  {EmptyObject, [quality |-> 5], [enableCompression |-> FALSE]}

(* The options of the calls that run side by side. *)
ConcurrentOptions ==
  {EmptyObject, [quality |-> 5, enableCompression |-> FALSE]}

(* new LoopOptimizer({quality: 8, enableCompression: true}) of the server. *)
ServerConfig == [quality |-> 8, enableCompression |-> TRUE]

(* Faulty variant: the defaults spread after the configuration. *)
ConstructorDefaultsWin(cfg) == Spread(cfg, DefaultConfig)

(* constructor: this.config = {quality: 8, enableCompression: true, ...config} *)
Constructor(cfg) == Spread(DefaultConfig, cfg)

(***************************************************************************)
(* Analyzer                                                                *)
(***************************************************************************)

(* Faulty variant: the guard without its typeof test. *)
InvalidAnimationDataFalsyOnly(animationData) == ~animationData.truthy

(* The guard of _analyzeLoop that throws 'Invalid animation data'. *)
InvalidAnimationData(animationData) ==
  (~animationData.truthy) \/ animationData.typeof # "object"

RECURSIVE ScanFrames(_, _, _)
ScanFrames(frames, i, repetitiveFrames) ==
  IF i >= Len(frames) THEN repetitiveFrames
  ELSE ScanFrames(frames, i + 1,
         IF JSONstringify(frames[i + 1]) = JSONstringify(frames[i])
         THEN Append(repetitiveFrames, i)
         ELSE repetitiveFrames)

(* Faulty variant: frames[i] compared with itself, not with frames[i-1]. *)
IdentifyEveryFrame(frames) ==
  IF Len(frames) = 0 THEN << >> ELSE [j \in 1..(Len(frames) - 1) |-> j]

(* for (let i = 1; i < frames.length; i++): JavaScript's frames[i] is      *)
(* frames[i + 1] here.                                                     *)
IdentifyRepetitiveFrames(frames) == ScanFrames(frames, 1, << >>)

IdentifyRedundantProperties(record) == << >>

(* _analyzeLoop past its guard.  duration is the quotient num/den.         *)
(* estimatedOptimizationPotential, a size estimate that nothing reads, is  *)
(* left out.                                                               *)
AnalyzeLoop(record) ==
  LET frames == IF Has(record, "frames") THEN record.frames ELSE << >>
      frameCount == Len(frames)
  IN [frameCount |-> frameCount,
      duration |-> IF Has(record, "duration") /\ record.duration # 0
                   THEN [num |-> record.duration, den |-> 1]
                   ELSE [num |-> frameCount, den |-> 30],
      repetitiveFrames |-> IdentifyRepetitiveFrames(frames),
      redundantProperties |-> IdentifyRedundantProperties(record)]

NoAnalysis ==
  [frameCount |-> 0, duration |-> [num |-> 0, den |-> 1],
   repetitiveFrames |-> << >>, redundantProperties |-> << >>]

(***************************************************************************)
(* Local transformer                                                       *)
(***************************************************************************)

RECURSIVE FilterByIndex(_, _, _)
FilterByIndex(frames, repetitiveIndices, index) ==
  IF index >= Len(frames) THEN << >>
  ELSE (IF ~Includes(repetitiveIndices, index)
        THEN <<frames[index + 1]>> ELSE << >>)
       \o FilterByIndex(frames, repetitiveIndices, index + 1)

(* Faulty variant: the filter keeps the repetitive frames. *)
CompressKeepsRepetitive(frames, repetitiveIndices) ==
  IF Len(frames) = 0 \/ Len(repetitiveIndices) = 0 THEN frames
  ELSE [j \in 1..Len(repetitiveIndices) |-> frames[repetitiveIndices[j] + 1]]

CompressRepetitiveFrames(frames, repetitiveIndices) ==
  IF Len(frames) = 0 \/ Len(repetitiveIndices) = 0 THEN frames
  ELSE FilterByIndex(frames, repetitiveIndices, 0)

(* A metadata value: an object with its properties, or a primitive (a      *)
(* non-empty string), which has none.                                      *)
MetadataObject(props) == [type |-> "object", props |-> props]
MetadataString == [type |-> "string", props |-> EmptyObject]

(* Faulty variant: no copy, optimized is the caller's object. *)
AliasRef(src, fresh) == src

(* const optimized = JSON.parse(JSON.stringify(animationData)): optimized  *)
(* is a new object, not the caller's.                                      *)
CopyRef(src, fresh) == fresh

(* _performLocalOptimizations on heap h: animationData is the cell src,    *)
(* fresh the cell a new object gets.  In strict mode (a class body)        *)
(* setting a property on a primitive metadata throws a TypeError, after    *)
(* the frames were replaced.                                               *)
PerformLocalOptimizations(h, src, fresh, analysis, options, date) ==
  LET optimized == CopyRef(src, fresh)
      h1 == Store(h, optimized, JSONRoundTrip(h[src]))
      h2 == IF Len(analysis.repetitiveFrames) > 0 /\ options.enableCompression
            THEN Store(h1, optimized,
                   Spread(h1[optimized],
                     [frames |-> CompressRepetitiveFrames(
                                   IF Has(h1[optimized], "frames")
                                   THEN h1[optimized].frames ELSE << >>,
                                   analysis.repetitiveFrames)]))
            ELSE h1
      metadata == IF Has(h2[optimized], "metadata")
                  THEN h2[optimized].metadata
                  ELSE MetadataObject(EmptyObject)
  IN IF metadata.type # "object"
     THEN [heap |-> h2, threw |-> TRUE, optimized |-> optimized]
     ELSE [heap |-> Store(h2, optimized,
                      Spread(h2[optimized],
                        [metadata |-> MetadataObject(
                           Spread(metadata.props,
                             [optimized |-> TRUE,
                              optimizationDate |-> date,
                              optimizationOptions |-> options]))])),
           threw |-> FALSE, optimized |-> optimized]

(***************************************************************************)
(* Result finalizer                                                        *)
(***************************************************************************)

(* Math.floor(Math.random() * 30): the two ends of its range. *)
RandomDraws == {0, 29}

(* The object passed to resolve. *)
Finalize(locallyOptimized, optimizationOptions, draw, timestamp) ==
  Spread(locallyOptimized,
    [optimized |-> TRUE,
     optimizationLevel |-> optimizationOptions.quality,
     sizeReduction |-> draw + 10,
     timestamp |-> timestamp])

(***************************************************************************)
(* State                                                                   *)
(***************************************************************************)

(* The animation records the callers hold. *)
CallerRecords ==
  << [frames |-> <<FrameA, FrameA, FrameB>>, duration |-> 2,
      metadata |-> MetadataObject([author |-> "ann", optimized |-> FALSE])],
     [frames |-> <<FrameB, FrameB>>, metadata |-> MetadataString] >>

CallerRefs == 1..Len(CallerRecords)
BodyRef(c) == Len(CallerRecords) + c
LocalRef(c) == Len(CallerRecords) + NumCalls + c
ResultRef(c) == Len(CallerRecords) + 2 * NumCalls + c

VARIABLES
  ctorConfig,     \* the constructor's argument
  config,         \* this.config
  isInitialized,  \* this.isInitialized
  heap,           \* reference -> object
  now,            \* the clock
  calls,          \* per call of optimizeLoop: its position and its locals
  responses       \* per call slot used by a request: the responses sent

vars == <<ctorConfig, config, isInitialized, heap, now, calls, responses>>

IdleCall ==
  [pc |-> "idle", via |-> "none", animationData |-> JSUndefined,
   input |-> EmptyObject, options |-> EmptyObject,
   optimizationOptions |-> DefaultConfig,
   analyzed |-> FALSE, analysis |-> NoAnalysis, transformed |-> FALSE,
   locallyOptimized |-> 0, timer |-> "none", deadline |-> 0,
   settlements |-> 0, error |-> "", result |-> 0]

InitWith(h, cfgs) ==
  /\ ctorConfig \in cfgs
  /\ config = Constructor(ctorConfig)
  /\ isInitialized = TRUE
  /\ heap = h
  /\ now = 0
  /\ calls = [c \in Calls |-> IdleCall]
  /\ responses = [c \in Calls |-> << >>]

Init == InitWith([r \in CallerRefs |-> CallerRecords[r]], ConstructorConfigs)

(***************************************************************************)
(* optimizeLoop                                                            *)
(***************************************************************************)

(* The synchronous part of optimizeLoop(animationData, options), up to the *)
(* promise it returns: the heap and the call after it.  input records the  *)
(* caller's object as it was passed.                                       *)
OptimizeLoop(h, call, c, via, animationData, options) ==
  LET started == [call EXCEPT !.via = via, !.animationData = animationData,
                              !.options = options]
      optimizationOptions == Spread(config, options)
      merged == [started EXCEPT !.optimizationOptions = optimizationOptions]
  IN IF ~isInitialized
     THEN [heap |-> h,
           call |-> [started EXCEPT !.pc = "rejected", !.settlements = @ + 1,
                       !.error = "LoopOptimizer not properly initialized"]]
     ELSE IF InvalidAnimationData(animationData)
     THEN [heap |-> h,
           call |-> [merged EXCEPT !.pc = "rejected", !.settlements = @ + 1,
                       !.error = "Invalid animation data"]]
     ELSE IF animationData.ref = 0
     THEN \* past the guard only an object has properties to read or to set
          [heap |-> h,
           call |-> [merged EXCEPT !.pc = "rejected", !.settlements = @ + 1,
                       !.error = IF animationData.truthy
                                 THEN "Cannot create property 'metadata' on string"
                                 ELSE "Cannot read properties of null"]]
     ELSE
       LET analysis == AnalyzeLoop(h[animationData.ref])
           local == PerformLocalOptimizations(h, animationData.ref, LocalRef(c),
                      analysis, optimizationOptions, now)
           analyzed == [merged EXCEPT !.input = h[animationData.ref],
                          !.analyzed = TRUE, !.analysis = analysis,
                          !.transformed = TRUE]
       IN IF local.threw
          THEN [heap |-> local.heap,
                call |-> [analyzed EXCEPT !.pc = "rejected",
                            !.settlements = @ + 1,
                            !.error = "Cannot create property 'optimized' on string"]]
          ELSE [heap |-> local.heap,
                call |-> [analyzed EXCEPT !.pc = "pending",
                            !.locallyOptimized = local.optimized,
                            !.timer = "scheduled", !.deadline = now + 1]]

(* A caller calls optimizeLoop directly. *)
DirectCall(c, animationData, options) ==
  /\ calls[c].via = "none"
  /\ LET o == OptimizeLoop(heap, calls[c], c, "direct", animationData, options)
     IN /\ heap' = o.heap
        /\ calls' = [calls EXCEPT ![c] = o.call]
  /\ UNCHANGED <<ctorConfig, config, isInitialized, now, responses>>

(* Faulty variant: the callback never calls resolve. *)
TimerCallbackNoResolve(call, c, h, draw, timestamp) ==
  [heap |-> h, call |-> [call EXCEPT !.timer = "fired"]]

(* The setTimeout callback: resolve({...locallyOptimized, ...}).  The      *)
(* delay has passed when it runs.                                          *)
TimerCallback(call, c, h, draw, timestamp) ==
  [heap |-> Store(h, ResultRef(c),
              Finalize(h[call.locallyOptimized], call.optimizationOptions,
                       draw, timestamp)),
   call |-> IF call.pc = "pending"
            THEN [call EXCEPT !.pc = "resolved", !.settlements = @ + 1,
                              !.timer = "fired", !.result = ResultRef(c)]
            ELSE [call EXCEPT !.timer = "fired"]]

(* The route handler after its await: res.json({success: true, data}) when *)
(* the promise resolved, the catch clause when it rejected.                *)
AfterAwait(call) ==
  IF call.pc = "resolved"
  THEN <<[status |-> 200, body |-> [success |-> TRUE, data |-> call.result]]>>
  ELSE IF call.pc = "rejected"
  THEN <<[status |-> 500, body |-> [success |-> FALSE, error |-> call.error]]>>
  ELSE << >>

TimerFire(c) ==
  /\ calls[c].timer = "scheduled"
  /\ \E draw \in RandomDraws :
       LET timestamp == Max(now, calls[c].deadline)
           o == TimerCallback(calls[c], c, heap, draw, timestamp)
       IN /\ heap' = o.heap
          /\ calls' = [calls EXCEPT ![c] = o.call]
          /\ now' = timestamp
          /\ responses' =
               [responses EXCEPT ![c] =
                  IF o.call.via = "http" THEN @ \o AfterAwait(o.call) ELSE @]
  /\ UNCHANGED <<ctorConfig, config, isInitialized>>

(***************************************************************************)
(* POST /api/optimize                                                      *)
(***************************************************************************)

(* Faulty variant: no return after the 400 response. *)
PostOptimizeHandlerNoReturn(h, call, c, animationData, options) ==
  LET o == OptimizeLoop(h, call, c, "http", animationData, options)
  IN [heap |-> o.heap, call |-> o.call,
      sent |-> (IF ~animationData.truthy
                THEN <<[status |-> 400,
                        body |-> [error |-> "Animation data is required"]]>>
                ELSE << >>) \o AfterAwait(o.call)]

(* The route handler up to its await, on the parsed body's animationData   *)
(* and options: the heap, the call and the responses sent.  A rejection    *)
(* that is already there is caught before anything else runs.              *)
PostOptimizeHandler(h, call, c, animationData, options) ==
  IF ~animationData.truthy
  THEN [heap |-> h,
        call |-> [call EXCEPT !.via = "http", !.animationData = animationData],
        sent |-> <<[status |-> 400,
                    body |-> [error |-> "Animation data is required"]]>>]
  ELSE LET o == OptimizeLoop(h, call, c, "http", animationData, options)
       IN [heap |-> o.heap, call |-> o.call, sent |-> AfterAwait(o.call)]

(* What a request body can carry as animationData: nothing, a primitive,   *)
(* or an object, which body-parser builds anew in the cell BodyRef(c).     *)
(* A body without options leaves optimizeLoop's default, the empty object. *)
RequestBodies(c) ==
  {[animationData |-> p, record |-> EmptyObject] : p \in Primitives}
  \cup {[animationData |-> ObjRef(BodyRef(c)), record |-> CallerRecords[r]] :
          r \in CallerRefs}

PostOptimize(c, body, options) ==
  /\ calls[c].via = "none"
  /\ LET parsed == IF body.animationData.ref # 0
                   THEN Store(heap, body.animationData.ref, body.record)
                   ELSE heap
         o == PostOptimizeHandler(parsed, calls[c], c, body.animationData, options)
     IN /\ heap' = o.heap
        /\ calls' = [calls EXCEPT ![c] = o.call]
        /\ responses' = [responses EXCEPT ![c] = @ \o o.sent]
  /\ UNCHANGED <<ctorConfig, config, isInitialized, now>>

(***************************************************************************)
(* A program that calls optimizeLoop directly, any number of calls pending *)
(* at a time.                                                              *)
(***************************************************************************)

DirectArguments == Primitives \cup {ObjRef(r) : r \in CallerRefs}

Next ==
  \/ \E c \in Calls, options \in ConcurrentOptions, animationData \in DirectArguments :
       DirectCall(c, animationData, options)
  \/ \E c \in Calls : TimerFire(c)

Spec == Init /\ [][Next]_vars

(* The event loop runs every timer that was set. *)
FairSpec == Spec /\ \A c \in Calls : WF_vars(TimerFire(c))

(***************************************************************************)
(* The server: its one optimizer, and requests in flight.                  *)
(***************************************************************************)

InitServer == InitWith([r \in CallerRefs |-> CallerRecords[r]], {ServerConfig})

NextServer ==
  \/ \E c \in Calls, options \in ConcurrentOptions :
       \E body \in RequestBodies(c) : PostOptimize(c, body, options)
  \/ \E c \in Calls : TimerFire(c)

ServerSpec == InitServer /\ [][NextServer]_vars

FairServerSpec == ServerSpec /\ \A c \in Calls : WF_vars(TimerFire(c))

(***************************************************************************)
(* The analyzer and the transformer over all short frame sequences: one    *)
(* caller record with any frames (or none), optimized once, and its result *)
(* optimized again.                                                        *)
(***************************************************************************)

BoundedSeq(S, n) == UNION {[1..k -> S] : k \in 0..n}

FrameRecords ==
  {EmptyObject} \cup {[frames |-> fs] : fs \in BoundedSeq(FrameValues, MaxFrames)}

InitFrames ==
  \E record \in FrameRecords :
    InitWith([r \in CallerRefs |-> IF r = 1 THEN record ELSE CallerRecords[r]],
             ConstructorConfigs)

NextFrames ==
  \/ \E options \in CallOptions : DirectCall(1, ObjRef(1), options)
  \/ \E options \in CallOptions :
       /\ calls[1].pc = "resolved"
       /\ DirectCall(2, ObjRef(calls[1].result), options)
  \/ \E c \in {1, 2} : TimerFire(c)

SpecFrames == InitFrames /\ [][NextFrames]_vars

(***************************************************************************)
(* Properties                                                              *)
(***************************************************************************)

Frames(record) == IF Has(record, "frames") THEN record.frames ELSE << >>

(* Two frames have the same content: the same keys with the same values.   *)
ContentEqual(f, g) == {f[i] : i \in DOMAIN f} = {g[i] : i \in DOMAIN g}

AllIdentical(frames) ==
  \A i, j \in DOMAIN frames : ContentEqual(frames[i], frames[j])

StrictlyIncreasing(s) == \A i, j \in DOMAIN s : i < j => s[i] < s[j]

(* The frames whose 0-based index is not in indices, in their order. *)
Survivors(frames, indices) ==
  LET keep == {i \in 0..(Len(frames) - 1) : ~Includes(indices, i)}
  IN [j \in 1..Cardinality(keep) |->
        frames[(CHOOSE i \in keep : Cardinality({k \in keep : k < i}) = j - 1) + 1]]

Returned(c) == calls[c].pc \in {"pending", "resolved"}
Settled(c) == calls[c].pc \in {"resolved", "rejected"}

(* C1: repetitiveFrames is the strictly increasing list of exactly the     *)
(* indices i, 1 <= i < len(frames), whose frame is content-equal to frame  *)
(* i-1.                                                                    *)
C1_RepetitiveFramesAreTheContentDuplicates ==
  \A c \in Calls : calls[c].analyzed =>
    LET frames == Frames(calls[c].input)
        repetitiveFrames == calls[c].analysis.repetitiveFrames
    IN /\ StrictlyIncreasing(repetitiveFrames)
       /\ \A j \in DOMAIN repetitiveFrames :
            repetitiveFrames[j] \in 1..(Len(frames) - 1)
       /\ \A i \in 1..(Len(frames) - 1) :
            Includes(repetitiveFrames, i) <=> ContentEqual(frames[i + 1], frames[i])

(* C2: the transformer's frames are the input frames without those at the  *)
(* indices of repetitiveFrames when there are any and enableCompression is *)
(* true, and the input frames otherwise.                                   *)
C2_TransformedFrames ==
  \A c \in Calls : Returned(c) =>
    LET input == calls[c].input
        optimized == heap[calls[c].locallyOptimized]
        repetitiveFrames == calls[c].analysis.repetitiveFrames
    IN IF Len(repetitiveFrames) > 0 /\ calls[c].optimizationOptions.enableCompression
       THEN /\ Has(optimized, "frames")
            /\ optimized.frames = Survivors(Frames(input), repetitiveFrames)
       ELSE /\ Has(optimized, "frames") <=> Has(input, "frames")
            /\ Frames(optimized) = Frames(input)

C2_Witness ==
  \E c \in Calls :
    /\ Returned(c)
    /\ calls[c].optimizationOptions.enableCompression
    /\ Frames(calls[c].input) = <<FrameA, FrameA, FrameA, FrameB>>
    /\ calls[c].analysis.repetitiveFrames = <<1, 2>>
    /\ Frames(heap[calls[c].locallyOptimized]) = <<FrameA, FrameB>>

(* C3, as stated: for every frame sequence, the empty one included, there  *)
(* are fewer repetitive indices than frames, and one fewer only when all   *)
(* frames are identical.                                                   *)
C3_FewerRepetitiveThanFrames ==
  \A c \in Calls : calls[c].analyzed =>
    LET frames == Frames(calls[c].input)
        repetitiveFrames == calls[c].analysis.repetitiveFrames
    IN /\ Len(repetitiveFrames) < Len(frames)
       /\ Len(repetitiveFrames) = Len(frames) - 1 => AllIdentical(frames)

(* C3, amended: for the empty frame sequence repetitiveFrames is empty;    *)
(* for every non-empty one there are fewer repetitive indices than frames, *)
(* and one fewer only when all frames are identical.                       *)
C3_FewerRepetitiveThanFramesUnlessEmpty ==
  \A c \in Calls : calls[c].analyzed =>
    LET frames == Frames(calls[c].input)
        repetitiveFrames == calls[c].analysis.repetitiveFrames
    IN IF Len(frames) = 0
       THEN Len(repetitiveFrames) = 0
       ELSE /\ Len(repetitiveFrames) < Len(frames)
            /\ Len(repetitiveFrames) = Len(frames) - 1 => AllIdentical(frames)

C3_Witness ==
  \E c \in Calls :
    /\ calls[c].analyzed
    /\ Len(Frames(calls[c].input)) >= 3
    /\ Len(calls[c].analysis.repetitiveFrames) = Len(Frames(calls[c].input)) - 1

(* C4: a call with an animation that is absent or no object fails with the *)
(* analyzer's invalid-input error; the transformer and the finalizer never *)
(* run for it, no timer is set and it never resolves.                      *)
C4_InvalidInputFailsWithNothingDone ==
  \A c \in Calls :
    (calls[c].pc # "idle" /\ calls[c].animationData.ref = 0) =>
      /\ calls[c].pc = "rejected"
      /\ calls[c].error = "Invalid animation data"
      /\ calls[c].settlements = 1
      /\ ~calls[c].analyzed
      /\ ~calls[c].transformed
      /\ calls[c].locallyOptimized = 0
      /\ calls[c].timer = "none"
      /\ calls[c].result = 0
      /\ LocalRef(c) \notin DOMAIN heap
      /\ ResultRef(c) \notin DOMAIN heap

C4_Witness ==
  \E c, d \in Calls :
    /\ calls[c].via = "direct" /\ calls[c].animationData = JSString
    /\ calls[c].pc = "rejected"
    /\ calls[d].via = "direct" /\ calls[d].animationData = JSUndefined
    /\ calls[d].pc = "rejected"

(* C5: a request whose animationData is missing or is no object gets a 4xx *)
(* response, not a 5xx one.                                                *)
C5_InvalidInputGets4xx ==
  \A c \in Calls :
    (calls[c].via = "http" /\ calls[c].animationData.ref = 0) =>
      \A i \in DOMAIN responses[c] : responses[c][i].status \in 400..499

(* What a call alone on a fresh instance built with ctorConfig makes of    *)
(* the record input with these options at this date.                       *)
Alone(input, options, date) ==
  LET effective == Spread(Spread([quality |-> 8, enableCompression |-> TRUE],
                                 ctorConfig), options)
      o == PerformLocalOptimizations(<<input>>, 1, 2, AnalyzeLoop(input),
                                     effective, date)
  IN [frames |-> Frames(o.heap[o.optimized]),
      hasFrames |-> Has(o.heap[o.optimized], "frames"),
      metadata |-> o.heap[o.optimized].metadata,
      optimizationLevel |-> effective.quality]

(* C6: no call changes a caller's record or the instance's options, and    *)
(* what each call produces is what it would produce alone.                 *)
C6_CallsAreIndependent ==
  /\ config = Spread([quality |-> 8, enableCompression |-> TRUE], ctorConfig)
  /\ \A r \in CallerRefs : heap[r] = CallerRecords[r]
  /\ \A c \in Calls :
       Returned(c) =>
            LET alone == Alone(calls[c].input, calls[c].options, calls[c].deadline - 1)
                optimized == heap[calls[c].locallyOptimized]
            IN /\ Frames(optimized) = alone.frames
               /\ Has(optimized, "frames") <=> alone.hasFrames
               /\ optimized.metadata = alone.metadata
               /\ calls[c].pc = "resolved" =>
                    LET result == heap[calls[c].result]
                    IN /\ Frames(result) = alone.frames
                       /\ Has(result, "frames") <=> alone.hasFrames
                       /\ result.metadata = alone.metadata
                       /\ result.optimizationLevel = alone.optimizationLevel

C6_Witness ==
  \E c, d \in Calls :
    /\ c # d
    /\ calls[c].via = "direct" /\ calls[d].via = "direct"
    /\ calls[c].animationData = ObjRef(1) /\ calls[d].animationData = ObjRef(1)
    /\ calls[c].options = [quality |-> 5, enableCompression |-> FALSE]
    /\ calls[d].options = EmptyObject
    /\ calls[c].pc = "resolved" /\ calls[d].pc = "resolved"
    /\ calls[c].deadline = calls[d].deadline

(* C7: a call settles at most once, resolved with a result or rejected     *)
(* with an error, a settled call stays as it is, a pending call has its    *)
(* timer set, and every pending call is eventually settled.                *)
C7_SettlesExactlyOnce ==
  /\ [](\A c \in Calls :
          /\ calls[c].settlements <= 1
          /\ Settled(c) <=> calls[c].settlements = 1
          /\ calls[c].pc = "resolved" => calls[c].result # 0 /\ calls[c].error = ""
          /\ calls[c].pc = "rejected" => calls[c].result = 0 /\ calls[c].error # ""
          /\ calls[c].pc = "pending" => calls[c].timer = "scheduled")
  /\ [][\A c \in Calls : Settled(c) =>
          /\ calls'[c].pc = calls[c].pc
          /\ calls'[c].result = calls[c].result
          /\ calls'[c].error = calls[c].error]_vars
  /\ \A c \in Calls : (calls[c].pc = "pending") ~> Settled(c)

C7_Witness ==
  \E c, d \in Calls :
    /\ calls[c].pc = "resolved" /\ calls[c].settlements = 1
    /\ calls[d].pc = "pending"
    /\ calls[d].deadline <= calls[c].deadline

(* The built-in defaults overridden by the constructor's configuration     *)
(* overridden by the call's options, key by key.                           *)
EffectiveOption(c, key) ==
  IF Has(calls[c].options, key) THEN calls[c].options[key]
  ELSE IF Has(ctorConfig, key) THEN ctorConfig[key]
  ELSE IF key = "quality" THEN 8 ELSE TRUE

(* C8: the effective options are the defaults overridden by the            *)
(* constructor's configuration overridden by the call's options; the       *)
(* result's optimizationLevel is the effective quality, and frames are     *)
(* removed exactly when the effective enableCompression is true and there  *)
(* are repetitive frames.                                                  *)
C8_EffectiveOptions ==
  \A c \in Calls : Returned(c) =>
    /\ DOMAIN calls[c].optimizationOptions = {"quality", "enableCompression"}
    /\ calls[c].optimizationOptions.quality = EffectiveOption(c, "quality")
    /\ calls[c].optimizationOptions.enableCompression
         = EffectiveOption(c, "enableCompression")
    /\ calls[c].pc = "resolved" =>
         heap[calls[c].result].optimizationLevel = EffectiveOption(c, "quality")
    /\ (Frames(heap[calls[c].locallyOptimized]) # Frames(calls[c].input))
         <=> (EffectiveOption(c, "enableCompression")
              /\ Len(calls[c].analysis.repetitiveFrames) > 0)

C8_Witness ==
  \E c, d \in Calls :
    /\ ctorConfig = [quality |-> 3]
    /\ calls[c].options = [quality |-> 5] /\ calls[c].pc = "resolved"
    /\ heap[calls[c].result].optimizationLevel = 5
    /\ Len(Frames(heap[calls[c].result])) = 2
    /\ calls[d].options = [enableCompression |-> FALSE] /\ calls[d].pc = "resolved"
    /\ heap[calls[d].result].optimizationLevel = 3
    /\ Len(Frames(heap[calls[d].result])) = 3

BadRequest == [status |-> 400, body |-> [error |-> "Animation data is required"]]

(* C9: a request gets one response and no second one: 400 and no call of   *)
(* optimizeLoop when animationData is missing, 200 with the result when    *)
(* the call resolved, 500 with the error's message when it threw; and      *)
(* every request is eventually answered.                                   *)
C9_OneClassifiedResponse ==
  /\ [](\A c \in Calls :
          /\ calls[c].via # "http" => responses[c] = << >>
          /\ calls[c].via = "http" =>
               /\ Len(responses[c]) <= 1
               /\ ~calls[c].animationData.truthy =>
                    calls[c].pc = "idle" /\ responses[c] = <<BadRequest>>
               /\ calls[c].animationData.truthy => calls[c].pc # "idle"
               /\ calls[c].pc = "pending" => responses[c] = << >>
               /\ calls[c].pc = "resolved" =>
                    responses[c] = <<[status |-> 200,
                                      body |-> [success |-> TRUE,
                                                data |-> calls[c].result]]>>
               /\ calls[c].pc = "rejected" =>
                    responses[c] = <<[status |-> 500,
                                      body |-> [success |-> FALSE,
                                                error |-> calls[c].error]]>>)
  /\ [][\A c \in Calls : Len(responses[c]) = 1 => responses'[c] = responses[c]]_vars
  /\ \A c \in Calls : (calls[c].via = "http") ~> (Len(responses[c]) = 1)

C9_Witness ==
  \E c, d \in Calls :
    /\ calls[c].via = "http" /\ calls[c].pc = "resolved"
    /\ Len(responses[c]) = 1 /\ responses[c][1].status = 200
    /\ calls[d].via = "http" /\ calls[d].pc = "rejected"
    /\ Len(responses[d]) = 1 /\ responses[d][1].status = 500

(* C10: with compression enabled the result has no two adjacent            *)
(* content-equal frames and keeps frame 0 first; analysing the result      *)
(* again finds nothing repetitive and optimizing it again leaves its       *)
(* frames as they are.                                                     *)
C10_NoAdjacentDuplicatesLeft ==
  \A c \in Calls :
    (calls[c].pc = "resolved" /\ calls[c].optimizationOptions.enableCompression) =>
      LET input == Frames(calls[c].input)
          result == Frames(heap[calls[c].result])
      IN /\ \A i \in 1..(Len(result) - 1) : ~ContentEqual(result[i], result[i + 1])
         /\ Len(input) > 0 => (Len(result) > 0 /\ result[1] = input[1])
         /\ \A d \in Calls :
              (calls[d].analyzed /\ calls[d].animationData = ObjRef(calls[c].result)) =>
                /\ calls[d].analysis.repetitiveFrames = << >>
                /\ Returned(d) => Frames(heap[calls[d].locallyOptimized]) = result
====
